---- MODULE Spec2Model ----
(***************************************************************************)
(* CLEAjs: heliographic measurement tool.                                  *)
(*                                                                         *)
(* The module models                                                       *)
(*   - src/utils/solarCalculations.js  (the transform and the resolver),   *)
(*   - the copy of those utilities appended to                             *)
(*     src/components/SidebarControls.js (names prefixed SC_),             *)
(*   - the Home component of src/pages/index.js (state and handlers).      *)
(*                                                                         *)
(* Numbers.  JavaScript doubles are modelled in fixed point:               *)
(*   pixel quantities    in units of 1/PxScale pixel,                      *)
(*   angles in degrees   as integers,                                      *)
(*   dimensionless reals (rho, radians, sines) in units of 1/Unit.         *)
(* Math.sqrt and the division that gives rho round away from zero, so a    *)
(* quotient strictly above 1 stays strictly above 1, as it does in IEEE    *)
(* arithmetic for the pixel inputs used here.  NaN, Infinity and undefined *)
(* are kept as distinct values and propagate as in JavaScript.             *)
(***************************************************************************)
EXTENDS Integers, Sequences, FiniteSets, TLC

(***************************************************************************)
(* Number representation                                                   *)
(***************************************************************************)
PxScale == 20
Unit == 10000
PI == 31416

NaN == -1000000007
Infinity == 1000000007
Undefined == -1000000009
\* a reference to an object held where a number is expected
ObjectRef == -1000000011

Px(n) == n * PxScale

\* undefined and a plain object both convert to NaN
ToNumber(v) == IF v = Undefined \/ v = ObjectRef THEN NaN ELSE v
IsNaN(v) == ToNumber(v) = NaN
Abs(n) == IF n < 0 THEN -n ELSE n
Sign(n) == IF n < 0 THEN -1 ELSE 1

\* nearest integer to n/d, d > 0, halves away from zero
RoundDiv(n, d) == Sign(n) * ((2 * Abs(n) + d) \div (2 * d))
\* n/d rounded away from zero, d # 0
CeilDiv(n, d) == Sign(n) * Sign(d) * ((Abs(n) + Abs(d) - 1) \div Abs(d))

Plus(a, b) == IF IsNaN(a) \/ IsNaN(b) THEN NaN ELSE a + b
Minus(a, b) == IF IsNaN(a) \/ IsNaN(b) THEN NaN ELSE a - b
\* product of two dimensionless reals
Times(a, b) == IF IsNaN(a) \/ IsNaN(b) THEN NaN ELSE RoundDiv(a * b, Unit)
\* the comparisons of JavaScript: false as soon as one side is NaN
GT(a, b) == ~IsNaN(a) /\ ~IsNaN(b) /\ a > b
GE(a, b) == ~IsNaN(a) /\ ~IsNaN(b) /\ a >= b
LT(a, b) == ~IsNaN(a) /\ ~IsNaN(b) /\ a < b
LE(a, b) == ~IsNaN(a) /\ ~IsNaN(b) /\ a <= b

(***************************************************************************)
(* Math.*                                                                  *)
(***************************************************************************)
SinTable ==
  << 0, 175, 349, 523, 698, 872, 1045, 1219, 1392, 1564, 1736, 1908, 2079,
     2250, 2419, 2588, 2756, 2924, 3090, 3256, 3420, 3584, 3746, 3907, 4067,
     4226, 4384, 4540, 4695, 4848, 5000, 5150, 5299, 5446, 5592, 5736, 5878,
     6018, 6157, 6293, 6428, 6561, 6691, 6820, 6947, 7071, 7193, 7314, 7431,
     7547, 7660, 7771, 7880, 7986, 8090, 8192, 8290, 8387, 8480, 8572, 8660,
     8746, 8829, 8910, 8988, 9063, 9135, 9205, 9272, 9336, 9397, 9455, 9511,
     9563, 9613, 9659, 9703, 9744, 9781, 9816, 9848, 9877, 9903, 9925, 9945,
     9962, 9976, 9986, 9994, 9998, 10000 >>

\* sine of an integer number of degrees, in units of 1/Unit
SinDeg(d) ==
  LET a == d % 360
  IN  IF a <= 90 THEN SinTable[a + 1]
      ELSE IF a <= 180 THEN SinTable[180 - a + 1]
      ELSE IF a <= 270 THEN -SinTable[a - 180 + 1]
      ELSE -SinTable[360 - a + 1]

CosDeg(d) == SinDeg(d + 90)

\* the integer degree nearest to a real number of radians
NearestDeg(r) == RoundDiv(r * 180, PI)

MathSin(r) == IF IsNaN(r) THEN NaN ELSE SinDeg(NearestDeg(r))
MathCos(r) == IF IsNaN(r) THEN NaN ELSE CosDeg(NearestDeg(r))

RECURSIVE SqrtSearch(_, _, _)
\* the largest s in lo..hi with s*s <= n
SqrtSearch(n, lo, hi) ==
  IF lo >= hi THEN lo
  ELSE LET mid == (lo + hi + 1) \div 2
       IN  IF mid * mid <= n THEN SqrtSearch(n, mid, hi)
           ELSE SqrtSearch(n, lo, mid - 1)

\* Math.sqrt of a squared pixel distance, in pixel units
MathSqrt(n) ==
  IF IsNaN(n) THEN NaN
  ELSE LET s == SqrtSearch(n, 0, 46340)
       IN  IF s * s = n THEN s ELSE s + 1

\* Math.hypot(a, b), and Math.sqrt(a*a + b*b)
MathHypot(a, b) ==
  IF IsNaN(a) \/ IsNaN(b) THEN NaN ELSE MathSqrt(a * a + b * b)

MathMin(a, b) == IF IsNaN(a) \/ IsNaN(b) THEN NaN ELSE IF a < b THEN a ELSE b
MathMax(a, b) == IF IsNaN(a) \/ IsNaN(b) THEN NaN ELSE IF a > b THEN a ELSE b

RECURSIVE AtanSearch(_, _, _, _)
\* for x, y >= 0: the largest a in lo..hi (degrees) that is not beyond the
\* direction of (x, y)
AtanSearch(y, x, lo, hi) ==
  IF lo >= hi THEN lo
  ELSE LET mid == (lo + hi + 1) \div 2
       IN  IF y * CosDeg(mid) - x * SinDeg(mid) >= 0
           THEN AtanSearch(y, x, mid, hi)
           ELSE AtanSearch(y, x, lo, mid - 1)

\* for x, y >= 0, not both 0: the degree in 0..90 nearest to the direction
AtanQuadrant(y, x) ==
  LET a == AtanSearch(y, x, 0, 90)
      Projection(d) == x * CosDeg(d) + y * SinDeg(d)
  IN  IF a < 90 /\ Projection(a + 1) > Projection(a) THEN a + 1 ELSE a

\* Math.atan2(y, x) in degrees, in -180..180; atan2(0, 0) = 0
Atan2Deg(y, x) ==
  IF y = 0 /\ x = 0 THEN 0
  ELSE LET a == AtanQuadrant(Abs(y), Abs(x))
           b == IF x < 0 THEN 180 - a ELSE a
       IN  IF y < 0 THEN -b ELSE b

RECURSIVE AsinSearch(_, _, _)
\* the largest b in lo..hi (degrees) with sin(b) <= v
AsinSearch(v, lo, hi) ==
  IF lo >= hi THEN lo
  ELSE LET mid == (lo + hi + 1) \div 2
       IN  IF SinDeg(mid) <= v THEN AsinSearch(v, mid, hi)
           ELSE AsinSearch(v, lo, mid - 1)

\* Math.asin in degrees; NaN outside [-1, 1]
AsinDeg(v) ==
  IF IsNaN(v) \/ v > Unit \/ v < -Unit THEN NaN
  ELSE LET b == AsinSearch(v, -90, 90)
       IN  IF b < 90 /\ SinDeg(b + 1) - v < v - SinDeg(b) THEN b + 1 ELSE b

(***************************************************************************)
(* JavaScript values that are not numbers                                  *)
(***************************************************************************)
JSUndefined == [type |-> "undefined"]
JSNull == [type |-> "null"]
TypeError == [type |-> "TypeError"]
JSNumber(v) == [type |-> "number", value |-> v]
SunParams(cx, cy, radius) ==
  [type |-> "object", cx |-> cx, cy |-> cy, radius |-> radius]
Header(B0, L0, P_ANGLE) ==
  [type |-> "object", B0 |-> B0, L0 |-> L0, P_ANGLE |-> P_ANGLE]
SolarData(sun_params, header) ==
  [type |-> "object", sun_params |-> sun_params, header |-> header]
Coordinates(latitude, longitude, rho) ==
  [type |-> "object", latitude |-> latitude, longitude |-> longitude,
   rho |-> rho]

(***************************************************************************)
(* src/utils/solarCalculations.js                                          *)
(***************************************************************************)
degreesToRadians(degrees) ==
  IF IsNaN(degrees) THEN NaN ELSE RoundDiv(degrees * PI, 180)

radiansToDegrees(radians) ==
  IF IsNaN(radians) THEN NaN ELSE RoundDiv(radians * 180, PI)

\* the value passed through without clamping
clamp_none(value, min, max) == value

clamp(value, min, max) == MathMin(MathMax(value, min), max)

\* the two arguments exchanged: the angle measured from the other axis
MathAtan2_swapped(y, x) ==
  IF IsNaN(y) \/ IsNaN(x) THEN NaN ELSE degreesToRadians(Atan2Deg(x, y))

MathAtan2(y, x) ==
  IF IsNaN(y) \/ IsNaN(x) THEN NaN ELSE degreesToRadians(Atan2Deg(y, x))

MathAsin(v) == degreesToRadians(AsinDeg(v))

\* the quotient clamped to [0, 1]
Quotient_clamped(distance, radius) ==
  IF IsNaN(distance) \/ IsNaN(radius) THEN NaN
  ELSE IF radius = 0 THEN (IF distance = 0 THEN NaN ELSE Unit)
  ELSE MathMin(MathMax(CeilDiv(distance * Unit, radius), 0), Unit)

\* a pixel distance divided by a pixel radius: a dimensionless real
Quotient(distance, radius) ==
  IF IsNaN(distance) \/ IsNaN(radius) THEN NaN
  ELSE IF radius = 0 THEN (IF distance = 0 THEN NaN ELSE Infinity)
  ELSE CeilDiv(distance * Unit, radius)

\* rho * Math.PI/2
RhoAngle(rho) == IF IsNaN(rho) THEN NaN ELSE RoundDiv(rho * PI, 2 * Unit)

\* a single adjustment instead of a loop: if (L < 0) L += 360;
WhileNegative_once(L) == IF LT(L, 0) THEN L + 360 ELSE L

RECURSIVE WhileNegative(_)
\* while (L < 0) L += 360;
WhileNegative(L) == IF LT(L, 0) THEN WhileNegative(L + 360) ELSE L

RECURSIVE WhileAtLeast360(_)
\* while (L >= 360) L -= 360;
WhileAtLeast360(L) == IF GE(L, 360) THEN WhileAtLeast360(L - 360) ELSE L

\* sine and cosine of rho*PI/2 exchanged
Latitude_swapped(rho, theta, B0rad) ==
  LET sinB == Plus(Times(MathSin(RhoAngle(rho)), MathSin(B0rad)),
                   Times(Times(MathCos(RhoAngle(rho)), MathCos(B0rad)),
                         MathCos(degreesToRadians(theta))))
  IN  radiansToDegrees(MathAsin(clamp(sinB, -Unit, Unit)))

\* latitude B of the point at (rho, theta) for a disc centre at latitude B0
Latitude(rho, theta, B0rad) ==
  LET sinB == Plus(Times(MathCos(RhoAngle(rho)), MathSin(B0rad)),
                   Times(Times(MathSin(RhoAngle(rho)), MathCos(B0rad)),
                         MathCos(degreesToRadians(theta))))
  IN  radiansToDegrees(MathAsin(clamp(sinB, -Unit, Unit)))

\* longitude of the point relative to the central meridian, before + L0
RelativeLongitude(rho, theta, B0rad) ==
  LET y_term == Times(MathSin(RhoAngle(rho)),
                      MathSin(degreesToRadians(theta)))
      x_term == Minus(Times(Times(MathSin(RhoAngle(rho)),
                                  MathCos(degreesToRadians(theta))),
                            MathSin(B0rad)),
                      Times(MathCos(RhoAngle(rho)), MathCos(B0rad)))
  IN  radiansToDegrees(MathAtan2(y_term, x_term))

\* the gate moved out to the lenient threshold 1.05
OffDisk_lenient(rho) == GT(rho, (105 * Unit) \div 100)

\* if (rho > 1) return null;
OffDisk(rho) == GT(rho, Unit)

calculateHeliographicCoordinates(x, y, solarData) ==
  IF solarData.type # "object" THEN TypeError
  ELSE IF solarData.sun_params.type # "object" THEN TypeError
  ELSE IF solarData.header.type # "object" THEN TypeError
  ELSE
    LET cx == solarData.sun_params.cx
        cy == solarData.sun_params.cy
        radius == solarData.sun_params.radius
        B0 == solarData.header.B0
        L0 == solarData.header.L0
        P_ANGLE == solarData.header.P_ANGLE
        dx == Minus(x, cx)
        dy == Minus(cy, y)
        rho == Quotient(MathHypot(dx, dy), radius)
    IN  IF OffDisk(rho) THEN JSNull
        ELSE
          LET theta == Minus(radiansToDegrees(MathAtan2(dx, dy)), P_ANGLE)
              B0rad == degreesToRadians(B0)
              B == Latitude(rho, theta, B0rad)
              L == Plus(RelativeLongitude(rho, theta, B0rad), L0)
          IN  Coordinates(B, WhileAtLeast360(WhileNegative(L)), rho)

JSImage(width, height) ==
  [type |-> "object", width |-> width, height |-> height]

\* obj.name: undefined when the object has no such property
Prop(obj, name) == IF name \in DOMAIN obj THEN obj[name] ELSE Undefined

\* the truth value JavaScript gives a number / an object reference
TruthyNumber(v) == v = ObjectRef \/ (~IsNaN(v) /\ v # 0)
TruthyObject(v) == v.type \notin {"undefined", "null"}

\* the radius taken from the longer side
determineImageCenterAndRadius_max(image, assumeCentered, contourThreshold) ==
  LET width == Prop(image, "width")
      height == Prop(image, "height")
      Half(v) == IF IsNaN(v) THEN NaN ELSE RoundDiv(v, 2)
      Fraction045(v) == IF IsNaN(v) THEN NaN ELSE RoundDiv(v * 45, 100)
  IN  SunParams(Half(width), Half(height),
                Fraction045(MathMax(width, height)))

\* both branches of the source (assumeCentered or not) compute the same
determineImageCenterAndRadius(image, assumeCentered, contourThreshold) ==
  LET width == Prop(image, "width")
      height == Prop(image, "height")
      Half(v) == IF IsNaN(v) THEN NaN ELSE RoundDiv(v, 2)
      Fraction045(v) == IF IsNaN(v) THEN NaN ELSE RoundDiv(v * 45, 100)
  IN  IF assumeCentered
      THEN SunParams(Half(width), Half(height),
                     Fraction045(MathMin(width, height)))
      ELSE SunParams(Half(width), Half(height),
                     Fraction045(MathMin(width, height)))

\* radius * radiusCorrection, the correction in hundredths
CorrectedRadius(radius, radiusCorrection) ==
  IF IsNaN(radius) \/ IsNaN(radiusCorrection) THEN NaN
  ELSE RoundDiv(radius * radiusCorrection, 100)

\* utils/solarCalculations.js lines 100-104
isPointOnSun(x, y, centerX, centerY, radius, radiusCorrection) ==
  LET adjR == CorrectedRadius(radius, radiusCorrection)
      distance == MathHypot(Minus(x, centerX), Minus(y, centerY))
  IN  LE(distance, adjR)

(***************************************************************************)
(* The utilities appended to src/components/SidebarControls.js             *)
(***************************************************************************)
\* SidebarControls.js lines 352-357
SC_isPointOnSun(x, y, centerX, centerY, radius, radiusCorrection, xOffset, yOffset) ==
  LET adjX == Plus(centerX, xOffset)
      adjY == Plus(centerY, yOffset)
      adjR == CorrectedRadius(radius, radiusCorrection)
  IN  LE(MathHypot(Minus(x, adjX), Minus(y, adjY)),
         IF IsNaN(adjR) THEN NaN ELSE RoundDiv(adjR * 105, 100))

\* the % of JavaScript: the result has the sign of the dividend
JSRem(a, n) == IF IsNaN(a) THEN NaN ELSE Sign(a) * (Abs(a) % n)

\* L = ((L % 360) + 360) % 360;
PositiveModulo(L) == JSRem(Plus(JSRem(L, 360), 360), 360)

\* destructuring a number yields undefined for every property
SC_Destructure(sunParams) ==
  IF sunParams.type = "object" THEN sunParams
  ELSE SunParams(Undefined, Undefined, Undefined)

SC_calculateHeliographicCoordinates(x, y, sunParams, header) ==
  IF sunParams.type \in {"undefined", "null"} THEN TypeError
  ELSE
    LET cx == SC_Destructure(sunParams).cx
        cy == SC_Destructure(sunParams).cy
        radius == SC_Destructure(sunParams).radius
        dx == Minus(x, cx)
        dy == Minus(cy, y)
        rho == Quotient(MathHypot(dx, dy), radius)
    IN  IF OffDisk(rho) THEN JSNull
        ELSE IF header.type \in {"undefined", "null"} THEN TypeError
        ELSE
          LET hdr == IF header.type = "object" THEN header
                     ELSE Header(Undefined, Undefined, Undefined)
              theta == Minus(radiansToDegrees(MathAtan2(dx, dy)),
                             hdr.P_ANGLE)
              B0 == degreesToRadians(hdr.B0)
              B == Latitude(rho, theta, B0)
              L == Plus(RelativeLongitude(rho, theta, B0), hdr.L0)
          IN  Coordinates(B, PositiveModulo(L), rho)

\* a detector that lets the contour threshold scale the radius
SC_determineImageCenterAndRadius_detect(image, assumeCentered, contourThreshold) ==
  LET width == Prop(image, "width")
      height == Prop(image, "height")
      cx == IF IsNaN(width) THEN NaN ELSE RoundDiv(width, 2)
      cy == IF IsNaN(height) THEN NaN ELSE RoundDiv(height, 2)
      m == MathMin(width, height)
      radius == IF IsNaN(m) THEN NaN
                ELSE IF assumeCentered THEN RoundDiv(m * 45, 100)
                ELSE RoundDiv(m * contourThreshold, 100)
  IN  SunParams(cx, cy, radius)

SC_determineImageCenterAndRadius(image, assumeCentered, contourThreshold) ==
  LET width == Prop(image, "width")
      height == Prop(image, "height")
      cx == IF IsNaN(width) THEN NaN ELSE RoundDiv(width, 2)
      cy == IF IsNaN(height) THEN NaN ELSE RoundDiv(height, 2)
      m == MathMin(width, height)
      radius == IF IsNaN(m) THEN NaN ELSE RoundDiv(m * 45, 100)
  IN  SunParams(cx, cy, radius)

(***************************************************************************)
(* The two longitude normalisations at the resolution of the Number type   *)
(*                                                                         *)
(* In the transform above angles are whole degrees, for which L + 360 and  *)
(* L - 360 are exact.  A raw longitude is in general not a whole degree:   *)
(* here it is counted in units of 1/DegScale degree and every sum is       *)
(* rounded to the nearest Number, ties to even.  A Number keeps a          *)
(* significand of 53 bits; the model keeps one of 12 bits (NumberLimit     *)
(* is 2^12), so that rounding sets in at 256 degrees instead of 2^53       *)
(* units.  The remainder operator % is exact, as it is for doubles.        *)
(***************************************************************************)
DegScale == 16
NumberLimit == 4096

Degrees(d) == d * DegScale

RECURSIVE SpacingOf(_, _)
\* the distance between neighbouring Numbers at the magnitude of v
SpacingOf(v, step) ==
  IF Abs(v) < NumberLimit * step THEN step ELSE SpacingOf(v, 2 * step)

\* the Number nearest to the exact value v
RoundToNumber(v) ==
  LET step == SpacingOf(v, 1)
      q == Abs(v) \div step
      r == Abs(v) % step
  IN  IF 2 * r > step \/ (2 * r = step /\ q % 2 = 1)
      THEN Sign(v) * step * (q + 1)
      ELSE Sign(v) * step * q

RECURSIVE Number_WhileNegative(_)
\* solarCalculations.js line 63: while (L < 0) L += 360;
Number_WhileNegative(L) ==
  IF L < 0 THEN Number_WhileNegative(RoundToNumber(L + Degrees(360))) ELSE L

RECURSIVE Number_WhileAtLeast360(_)
\* solarCalculations.js line 64: while (L >= 360) L -= 360;
Number_WhileAtLeast360(L) ==
  IF L >= Degrees(360)
  THEN Number_WhileAtLeast360(RoundToNumber(L - Degrees(360)))
  ELSE L

\* SidebarControls.js line 334: L = ((L % 360) + 360) % 360;
Number_PositiveModulo(L) ==
  JSRem(RoundToNumber(JSRem(L, Degrees(360)) + Degrees(360)), Degrees(360))

(***************************************************************************)
(* State                                                                   *)
(***************************************************************************)
VARIABLES
  \* a call of one of the exported pure functions and what it returned
  call, ret,
  \* Home component, src/pages/index.js: useState values
  images, sortedFilenames, currentImageIndex,
  currentImage, sunParams, adjustedSunParams, imageScale, obsTime,
  currentSelection, selectionCoords, heliographicCoords,
  distanceFromCenter, zoomedRegion,
  measurements, featureLabel,
  animationRunning, selectionMode, disableBoundaryCheck,
  radiusCorrection, centerXOffset, centerYOffset,
  detectionMethod, contourThreshold, forceFitsData,
  \* animationRef.current, and the intervals that are set: the number of
  \* images each one's callback holds
  animationRef, intervals,
  \* the handleFileUpload calls that are awaiting their file reads
  uploads,
  \* the last event handler that ran, its input and whether it threw
  event

callVars == <<call, ret>>
imageVars == <<images, sortedFilenames, currentImageIndex, currentImage,
               sunParams, adjustedSunParams, imageScale, obsTime>>
selectionVars == <<currentSelection, selectionCoords, heliographicCoords,
                   distanceFromCenter, zoomedRegion>>
configVars == <<animationRunning, selectionMode, disableBoundaryCheck,
                radiusCorrection, centerXOffset, centerYOffset,
                detectionMethod, contourThreshold, forceFitsData>>
recordVars == <<measurements, featureLabel>>
timerVars == <<animationRef, intervals>>
homeVars == <<imageVars, selectionVars, configVars, recordVars, timerVars,
              uploads, event>>
vars == <<callVars, homeVars>>

\* useRef(null), line 52: the identifiers of setInterval are positive
NoTimer == 0

\* the empty function: the object {} of JavaScript
EmptyObject == [n \in {} |-> JSNull]

\* useState initial values, index.js lines 29-71
HomeInit ==
  /\ images = EmptyObject
  /\ sortedFilenames = <<>>
  /\ currentImageIndex = 0
  /\ currentImage = JSNull
  /\ sunParams = SunParams(0, 0, 0)
  /\ adjustedSunParams = SunParams(0, 0, 0)
  /\ imageScale = [num |-> 1, den |-> 1]
  /\ obsTime = "null"
  /\ currentSelection = JSNull
  /\ selectionCoords = JSNull
  /\ heliographicCoords = JSNull
  /\ distanceFromCenter = JSNull
  /\ zoomedRegion = JSNull
  /\ measurements = <<>>
  /\ featureLabel = ""
  /\ animationRunning = FALSE
  /\ selectionMode = "rect"
  /\ disableBoundaryCheck = FALSE
  /\ radiusCorrection = 200
  /\ centerXOffset = Px(-21)
  /\ centerYOffset = Px(0)
  /\ detectionMethod = "center"
  /\ contourThreshold = 15
  /\ forceFitsData = TRUE
  /\ animationRef = NoTimer
  /\ intervals = EmptyObject
  /\ uploads = <<>>
  /\ event = [handler |-> "none", outcome |-> "none"]

(***************************************************************************)
(* The pure functions, called on inputs drawn from bounded sets            *)
(***************************************************************************)
\* pixel grid of the points picked: columns 0..MaxColumn and rows 0..MaxRow,
\* 200 pixels apart
MaxColumn == 6
MaxRow == 4
\* L0 ranges over -MaxL0 .. MaxL0 steps of 145 degrees
MaxL0 == 5

PointXs ==
  {Px(200 * i) : i \in 0..MaxColumn}
  \cup {Px(400), Px(750), Px(750) + 1, Px(1200)}
PointYs == {Px(200 * j) : j \in 0..MaxRow} \cup {Px(54), Px(300), Px(400)}
Centres == {<<Px(400), Px(400)>>, <<Px(400), Px(300)>>}
Radii == {Px(350), Px(270), 0, Px(-350)}
B0Values == {-90, -30, 0, 7, 8, 90}
L0Values == {145 * l : l \in (-MaxL0)..MaxL0}
PValues == {-90, -26, 0, 26}

Geometries == {SunParams(c[1], c[2], r) : c \in Centres, r \in Radii}
Headers ==
  {Header(b, l, p) : b \in B0Values, l \in L0Values, p \in PValues}
  \cup {Header(Undefined, Undefined, Undefined), JSUndefined}

TransformCalls ==
  [fn : {"transform"}, x : PointXs, y : PointYs,
   sun_params : Geometries, header : Headers]

\* image sides of 0 .. MaxImageSize steps of 200 pixels, and two odd ones
MaxImageSize == 5
ImageSizes ==
  {Px(200 * k) : k \in 0..MaxImageSize}
  \cup {Px(600), Px(800), Px(801), Px(1023)}

ResolveCalls ==
  [fn : {"resolve"}, image : {JSImage(w, h) : w \in ImageSizes, h \in ImageSizes},
   assumeCentered : BOOLEAN, contourThreshold : {1, 15, 50}]

\* raw longitudes: the Numbers nearest to -MaxRawL .. MaxRawL steps of 53
\* units, from about -990 to 990 degrees
MaxRawL == 300
RawLongitudes == {RoundToNumber(53 * i) : i \in (-MaxRawL)..MaxRawL}

NormalizeCalls == [fn : {"normalize"}, L : RawLongitudes]

\* radiusCorrection in hundredths: the default 1.0 and 2.0
MemberCalls ==
  [fn : {"member"}, x : PointXs, y : PointYs, centre : Centres,
   radius : Radii, radiusCorrection : {100, 200}]

CallInit ==
  /\ call \in TransformCalls \cup ResolveCalls \cup NormalizeCalls
              \cup MemberCalls
  /\ ret = [by |-> "none"]

Call_calculateHeliographicCoordinates ==
  /\ call.fn = "transform"
  /\ ret.by = "none"
  /\ ret' = [by |-> "utils",
             value |-> calculateHeliographicCoordinates(
                         call.x, call.y,
                         SolarData(call.sun_params, call.header))]
  /\ UNCHANGED <<call, homeVars>>

Call_SC_calculateHeliographicCoordinates ==
  /\ call.fn = "transform"
  /\ ret.by = "none"
  /\ ret' = [by |-> "SidebarControls",
             value |-> SC_calculateHeliographicCoordinates(
                         call.x, call.y, call.sun_params, call.header)]
  /\ UNCHANGED <<call, homeVars>>

Call_determineImageCenterAndRadius ==
  /\ call.fn = "resolve"
  /\ ret.by = "none"
  /\ ret' = [by |-> "utils",
             value |-> determineImageCenterAndRadius(
                         call.image, call.assumeCentered,
                         call.contourThreshold)]
  /\ UNCHANGED <<call, homeVars>>

Call_SC_determineImageCenterAndRadius ==
  /\ call.fn = "resolve"
  /\ ret.by = "none"
  /\ ret' = [by |-> "SidebarControls",
             value |-> SC_determineImageCenterAndRadius(
                         call.image, call.assumeCentered,
                         call.contourThreshold)]
  /\ UNCHANGED <<call, homeVars>>

\* the normalisation of solarCalculations.js lines 63-64
Call_WhileLoops ==
  /\ call.fn = "normalize"
  /\ ret.by = "none"
  /\ ret' = [by |-> "utils",
             value |-> Number_WhileAtLeast360(Number_WhileNegative(call.L))]
  /\ UNCHANGED <<call, homeVars>>

\* the normalisation of SidebarControls.js line 334
Call_PositiveModulo ==
  /\ call.fn = "normalize"
  /\ ret.by = "none"
  /\ ret' = [by |-> "SidebarControls",
             value |-> Number_PositiveModulo(call.L)]
  /\ UNCHANGED <<call, homeVars>>

Call_isPointOnSun ==
  /\ call.fn = "member"
  /\ ret.by = "none"
  /\ ret' = [by |-> "utils",
             value |-> isPointOnSun(call.x, call.y, call.centre[1],
                                    call.centre[2], call.radius,
                                    call.radiusCorrection)]
  /\ UNCHANGED <<call, homeVars>>

Call_SC_isPointOnSun ==
  /\ call.fn = "member"
  /\ ret.by = "none"
  /\ ret' = [by |-> "SidebarControls",
             value |-> SC_isPointOnSun(call.x, call.y, call.centre[1],
                                       call.centre[2], call.radius,
                                       call.radiusCorrection, 0, 0)]
  /\ UNCHANGED <<call, homeVars>>

InitCalc == CallInit /\ HomeInit

NextCalc ==
  \/ Call_calculateHeliographicCoordinates
  \/ Call_SC_calculateHeliographicCoordinates
  \/ Call_determineImageCenterAndRadius
  \/ Call_SC_determineImageCenterAndRadius
  \/ Call_WhileLoops
  \/ Call_PositiveModulo
  \/ Call_isPointOnSun
  \/ Call_SC_isPointOnSun

SpecCalc == InitCalc /\ [][NextCalc]_vars

(***************************************************************************)
(* The normalisation loops of solarCalculations.js lines 63-64, one        *)
(* iteration at a time, at the resolution of the Number type               *)
(***************************************************************************)
\* a raw longitude so large that neighbouring Numbers are more than 720
\* degrees apart (as they are near 1e19 for doubles)
HugeLongitude == 4 * NumberLimit * NumberLimit

LoopCalls ==
  [fn : {"loop"}, L : RawLongitudes \cup {-HugeLongitude, HugeLongitude}]

\* line 60: L holds the raw longitude when control reaches line 63; odd is
\* the parity of the number of loop iterations executed so far
Loop_Enter ==
  /\ call.fn = "loop"
  /\ ret.by = "none"
  /\ ret' = [by |-> "utils", line |-> 63, L |-> call.L, odd |-> FALSE]
  /\ UNCHANGED <<call, homeVars>>

\* line 63: while (L < 0) L += 360;
Loop_WhileNegative ==
  /\ ret.by = "utils"
  /\ ret.line = 63
  /\ ret' = IF ret.L < 0
            THEN [ret EXCEPT !.L = RoundToNumber(ret.L + Degrees(360)),
                             !.odd = ~ret.odd]
            ELSE [ret EXCEPT !.line = 64]
  /\ UNCHANGED <<call, homeVars>>

\* line 64: while (L >= 360) L -= 360;
Loop_WhileAtLeast360 ==
  /\ ret.by = "utils"
  /\ ret.line = 64
  /\ ret' = IF ret.L >= Degrees(360)
            THEN [ret EXCEPT !.L = RoundToNumber(ret.L - Degrees(360)),
                             !.odd = ~ret.odd]
            ELSE [ret EXCEPT !.line = 66]
  /\ UNCHANGED <<call, homeVars>>

InitLoop == call \in LoopCalls /\ ret = [by |-> "none"] /\ HomeInit

NextLoop ==
  \/ Loop_Enter
  \/ Loop_WhileNegative
  \/ Loop_WhileAtLeast360

\* the function runs without interruption: a step that can be taken is
\* taken
SpecLoop == InitLoop /\ [][NextLoop]_vars /\ WF_vars(NextLoop)

(***************************************************************************)
(* Strings: sequences of UTF-16 code units                                 *)
(***************************************************************************)
Dot == 46

\* the position of the last "." of a name, 0 when there is none
LastDot(name) ==
  LET dots == {i \in 1..Len(name) : name[i] = Dot}
  IN  IF dots = {} THEN 0 ELSE CHOOSE i \in dots : \A j \in dots : j <= i

toLowerCase(str) ==
  [i \in 1..Len(str) |->
     IF str[i] >= 65 /\ str[i] <= 90 THEN str[i] + 32 ELSE str[i]]

\* file.name.split('.').slice(0, -1).join('.')
BaseName(name) ==
  IF LastDot(name) = 0 THEN <<>> ELSE SubSeq(name, 1, LastDot(name) - 1)

\* file.name.split('.').pop().toLowerCase()
Extension(name) == toLowerCase(SubSeq(name, LastDot(name) + 1, Len(name)))

\* name.includes(part)
Includes(name, part) ==
  \E i \in 0..(Len(name) - Len(part)) :
    SubSeq(name, i + 1, i + Len(part)) = part

\* a < b in the order of Array.prototype.sort without a comparator
StringLess(a, b) ==
  \/ Len(a) < Len(b) /\ SubSeq(b, 1, Len(a)) = a
  \/ \E i \in 1..Len(a) :
       /\ i <= Len(b)
       /\ SubSeq(a, 1, i - 1) = SubSeq(b, 1, i - 1)
       /\ a[i] < b[i]

RECURSIVE SortedKeys(_)
\* Object.keys(obj).sort() for the set of keys of obj
SortedKeys(keys) ==
  IF keys = {} THEN <<>>
  ELSE LET first == CHOOSE k \in keys :
                      \A other \in keys \ {k} : StringLess(k, other)
       IN  <<first>> \o SortedKeys(keys \ {first})

EXT_json == <<106, 115, 111, 110>>
EXT_png == <<112, 110, 103>>
EXT_jpg == <<106, 112, 103>>
EXT_jpeg == <<106, 112, 101, 103>>
EXT_fits == <<102, 105, 116, 115>>
EXT_fit == <<102, 105, 116>>

(***************************************************************************)
(* Files offered to the upload panel                                       *)
(***************************************************************************)
\* "sun.png", "su.png": bitmaps of 800x800 and 1600x1200 pixels
File_sun_png ==
  [type |-> "object", name |-> <<115, 117, 110, 46, 112, 110, 103>>,
   width |-> Px(800), height |-> Px(800)]
File_su_png ==
  [type |-> "object", name |-> <<115, 117, 46, 112, 110, 103>>,
   width |-> Px(1600), height |-> Px(1200)]
\* "sun.json": {"sun_params": {"cx": 400, "cy": 400, "radius": 350}}
File_sun_json ==
  [type |-> "object", name |-> <<115, 117, 110, 46, 106, 115, 111, 110>>,
   metadata |-> [type |-> "object",
                 sun_params |-> SunParams(Px(400), Px(400), Px(350))]]

\* "su.json": {"header": {"FNDLMBXC": 800, "FNDLMBYC": 600,
\*                        "FNDLMBMI": 500, "FNDLMBMA": 520}}
File_su_json ==
  [type |-> "object", name |-> <<115, 117, 46, 106, 115, 111, 110>>,
   metadata |-> [type |-> "object",
                 header |-> [type |-> "object",
                             FNDLMBXC |-> Px(800), FNDLMBYC |-> Px(600),
                             FNDLMBMI |-> Px(500), FNDLMBMA |-> Px(520)]]]
\* another "su.json", for a limb fit whose centre has x = 0:
\* {"header": {"FNDLMBXC": 0, "FNDLMBYC": 600,
\*             "FNDLMBMI": 500, "FNDLMBMA": 520}}
File_su_json_zero ==
  [type |-> "object", name |-> <<115, 117, 46, 106, 115, 111, 110>>,
   metadata |-> [type |-> "object",
                 header |-> [type |-> "object",
                             FNDLMBXC |-> 0, FNDLMBYC |-> Px(600),
                             FNDLMBMI |-> Px(500), FNDLMBMA |-> Px(520)]]]

\* the object a sidecar can hold in the place of the number sun_params.cx
NestedSolarData ==
  SolarData(SunParams(Px(400), Px(400), Px(350)), Header(0, 0, 0))
\* another "sun.json", whose cx is itself an object:
\* {"sun_params": {"cx": {"sun_params": {"cx": 400, "cy": 400, "radius": 350},
\*                        "header": {"B0": 0, "L0": 0, "P_ANGLE": 0}},
\*                 "cy": 400, "radius": 350}}
File_sun_json_nested ==
  [type |-> "object", name |-> <<115, 117, 110, 46, 106, 115, 111, 110>>,
   metadata |-> [type |-> "object",
                 sun_params |-> SunParams(ObjectRef, Px(400), Px(350))]]

FileUniverse ==
  {File_sun_png, File_su_png, File_sun_json, File_su_json, File_su_json_zero,
   File_sun_json_nested}

\* the largest number of files dropped at once, and of uploads in progress
MaxFiles == 2
MaxUploads == 2

\* the files of one selection have different names
FileLists ==
  {files \in UNION {[1..n -> FileUniverse] : n \in 1..MaxFiles} :
     \A i, j \in 1..Len(files) : i # j => files[i].name # files[j].name}

(***************************************************************************)
(* src/utils/solarCalculations.js: readImageFile                           *)
(***************************************************************************)
\* resolves to {image, obsTime, sunParams}: an object that has no width and
\* no height of its own
readImageFile(file) ==
  [type |-> "object",
   image |-> JSImage(file.width, file.height),
   obsTime |-> "new Date()",
   sunParams |-> determineImageCenterAndRadius(
                   JSImage(file.width, file.height), TRUE, Unit \div 2)]

(***************************************************************************)
(* src/pages/index.js: handleFileUpload                                    *)
(***************************************************************************)
EmptyGroup ==
  [json |-> JSUndefined, image |-> JSUndefined, fits |-> JSUndefined]

RECURSIVE GroupFiles(_, _, _)
\* first pass: fileGroups, with the insertion order of its keys
GroupFiles(files, i, fileGroups) ==
  IF i > Len(files) THEN fileGroups
  ELSE
    LET file == files[i]
        baseName == BaseName(file.name)
        extension == Extension(file.name)
        known == baseName \in DOMAIN fileGroups.of
        old == IF known THEN fileGroups.of[baseName] ELSE EmptyGroup
        new == IF extension = EXT_json THEN [old EXCEPT !.json = file]
               ELSE IF extension \in {EXT_png, EXT_jpg, EXT_jpeg}
                 THEN [old EXCEPT !.image = file]
               ELSE IF extension \in {EXT_fits, EXT_fit}
                 THEN [old EXCEPT !.fits = file]
               ELSE old
    IN  GroupFiles(files, i + 1,
          [order |-> IF known THEN fileGroups.order
                     ELSE Append(fileGroups.order, baseName),
           of |-> [b \in DOMAIN fileGroups.of \cup {baseName} |->
                     IF b = baseName THEN new ELSE fileGroups.of[b]]])

\* the sidecar is read for its observation time only
MetadataSunParams_none(json) == JSNull

\* lines 249-270: the sun parameters a JSON sidecar supplies, or null
MetadataSunParams(json) ==
  LET metadata == json.metadata
  IN  IF metadata.type # "object" THEN JSNull
      ELSE IF "sun_params" \in DOMAIN metadata
              /\ TruthyObject(metadata.sun_params)
        THEN metadata.sun_params
      ELSE IF "header" \in DOMAIN metadata /\ TruthyObject(metadata.header)
        THEN LET header == metadata.header
             IN  IF /\ TruthyNumber(Prop(header, "FNDLMBXC"))
                    /\ TruthyNumber(Prop(header, "FNDLMBYC"))
                    /\ TruthyNumber(Prop(header, "FNDLMBMI"))
                    /\ TruthyNumber(Prop(header, "FNDLMBMA"))
                 THEN SunParams(header.FNDLMBXC, header.FNDLMBYC,
                                RoundDiv(header.FNDLMBMI + header.FNDLMBMA, 2))
                 ELSE JSNull
      ELSE JSNull

\* lines 272-281: the observation time a JSON sidecar supplies
MetadataObsTime(json) ==
  LET metadata == json.metadata
  IN  IF metadata.type # "object" THEN "new Date()"
      ELSE IF "observation_time" \in DOMAIN metadata THEN "observation_time"
      ELSE IF "header" \in DOMAIN metadata /\ TruthyObject(metadata.header)
              /\ "DATE-OBS" \in DOMAIN metadata.header
        THEN "DATE-OBS"
      ELSE "new Date()"

\* lines 206-325: one group of files; acc is [newImages, newLoaded]
ProcessGroup(baseName, fileGroup, acc, assumeCentered, threshold) ==
  IF \E name \in DOMAIN acc.newImages : Includes(name, baseName) THEN acc
  \* readFitsFile is imported but not exported by solarCalculations.js:
  \* the call throws and the catch of line 322 skips the group
  ELSE IF TruthyObject(fileGroup.fits) THEN acc
  ELSE IF TruthyObject(fileGroup.image) THEN
    LET imageData == readImageFile(fileGroup.image)
        imageName == fileGroup.image.name
        sunParamsData == IF TruthyObject(fileGroup.json)
                         THEN MetadataSunParams(fileGroup.json)
                         ELSE JSNull
        obsTimeData == IF TruthyObject(fileGroup.json)
                       THEN MetadataObsTime(fileGroup.json)
                       ELSE "new Date()"
        stored == [image |-> imageData,
                   obsTime |-> obsTimeData,
                   width |-> Prop(imageData, "width"),
                   height |-> Prop(imageData, "height"),
                   sunParams |->
                     IF TruthyObject(sunParamsData) THEN sunParamsData
                     ELSE determineImageCenterAndRadius(
                            imageData, assumeCentered, threshold)]
    IN  [newImages |->
           [n \in DOMAIN acc.newImages \cup {imageName} |->
              IF n = imageName THEN stored ELSE acc.newImages[n]],
         newLoaded |-> TRUE]
  ELSE acc

RECURSIVE ProcessGroups(_, _, _, _, _)
ProcessGroups(fileGroups, i, acc, assumeCentered, threshold) ==
  IF i > Len(fileGroups.order) THEN acc
  ELSE ProcessGroups(fileGroups, i + 1,
         ProcessGroup(fileGroups.order[i], fileGroups.of[fileGroups.order[i]],
                      acc, assumeCentered, threshold),
         assumeCentered, threshold)

\* The second pass (lines 328-396) only reaches files whose group has neither
\* an image nor a FITS file, that is files of an unsupported type, and skips
\* them: it stores nothing.
UploadResult(upload) ==
  ProcessGroups(
    GroupFiles(upload.files, 1, [order |-> <<>>, of |-> EmptyObject]), 1,
    [newImages |-> upload.images, newLoaded |-> FALSE],
    upload.detectionMethod = "center", upload.contourThreshold)

(***************************************************************************)
(* src/pages/index.js: effects                                             *)
(***************************************************************************)
NoScale == [num |-> 1, den |-> 1]

\* a pixel quantity times / divided by the display scale
Scaled(v, scale) ==
  IF IsNaN(v) THEN NaN ELSE RoundDiv(v * scale.num, scale.den)
Unscaled(v, scale) ==
  IF IsNaN(v) THEN NaN ELSE RoundDiv(v * scale.den, scale.num)

\* lines 87-91
IndexEffect(sorted, index) ==
  IF Len(sorted) > 0 /\ index >= Len(sorted) THEN 0 ELSE index

\* line 112-114: the stored image the index names, if any
HasCurrent(imgs, sorted, index) ==
  /\ Len(sorted) > 0
  /\ index + 1 \in 1..Len(sorted)
  /\ sorted[index + 1] \in DOMAIN imgs

\* lines 123-135: the display scale for a stored image
DisplayScale(stored) ==
  IF GT(stored.width, Px(800))
  THEN [num |-> Px(800), den |-> stored.width]
  ELSE NoScale

\* lines 137-148
CurrentSunParams(stored, method, threshold) ==
  IF TruthyObject(stored.sunParams) THEN stored.sunParams
  ELSE determineImageCenterAndRadius(stored.image, method = "center",
                                     threshold)

\* lines 161-173: the adjusted parameters, kept when a parameter is falsy
AdjustedEffect(sp, scale, xOffset, yOffset, correction, old) ==
  IF /\ TruthyNumber(sp.cx) /\ TruthyNumber(sp.cy) /\ TruthyNumber(sp.radius)
  THEN SunParams(Plus(Scaled(sp.cx, scale), xOffset),
                 Plus(Scaled(sp.cy, scale), yOffset),
                 IF IsNaN(sp.radius) THEN NaN
                 ELSE RoundDiv(Scaled(sp.radius, scale) * correction, 100))
  ELSE old

\* The state after the effects have run.  imgs, sorted and index are the new
\* values of images, sortedFilenames and currentImageIndex; changed tells
\* whether a dependency of the effect of lines 111-158 changed; xOffset,
\* yOffset, correction are the new values of the three corrections.
\* method and threshold are the new values of detectionMethod and
\* contourThreshold.
RerenderWith(imgs, sorted, index, changed, xOffset, yOffset, correction, method, threshold) ==
  LET idx == IndexEffect(sorted, index)
      shown == (changed \/ idx # index) /\ HasCurrent(imgs, sorted, idx)
      stored == imgs[sorted[idx + 1]]
      sp == IF shown
            THEN CurrentSunParams(stored, method, threshold)
            ELSE sunParams
      scale == IF shown THEN DisplayScale(stored) ELSE imageScale
  IN  /\ images' = imgs
      /\ sortedFilenames' = sorted
      /\ currentImageIndex' = idx
      /\ currentImage' = IF shown THEN stored.image ELSE currentImage
      /\ sunParams' = sp
      /\ imageScale' = scale
      /\ obsTime' = IF shown THEN stored.obsTime ELSE obsTime
      /\ adjustedSunParams' =
           AdjustedEffect(sp, scale, xOffset, yOffset, correction,
                          adjustedSunParams)
      /\ currentSelection' = IF shown THEN JSNull ELSE currentSelection
      /\ selectionCoords' = IF shown THEN JSNull ELSE selectionCoords
      /\ heliographicCoords' = IF shown THEN JSNull ELSE heliographicCoords
      /\ distanceFromCenter' = IF shown THEN JSNull ELSE distanceFromCenter
      /\ zoomedRegion' = IF shown THEN JSNull ELSE zoomedRegion

\* the effects after a change that leaves detectionMethod and
\* contourThreshold alone
Rerender(imgs, sorted, index, changed, xOffset, yOffset, correction) ==
  RerenderWith(imgs, sorted, index, changed, xOffset, yOffset, correction,
               detectionMethod, contourThreshold)

\* an identifier that no interval set so far has
FreshTimer(set) ==
  CHOOSE id \in 1..(Cardinality(set) + 2) :
    /\ id \notin set
    /\ id # animationRef
    /\ \A other \in 1..(id - 1) : other \in set \/ other = animationRef

\* the effect without the cleanup of lines 103-107
AnimationEffect_nocleanup(wasRunning, running, oldLength, newLength) ==
  IF wasRunning = running /\ oldLength = newLength
  THEN UNCHANGED timerVars
  ELSE LET timer == FreshTimer(DOMAIN intervals)
       IN  IF running /\ newLength > 0
           THEN /\ animationRef' = timer
                /\ intervals' = [id \in DOMAIN intervals \cup {timer} |->
                                   IF id = timer THEN newLength
                                   ELSE intervals[id]]
           ELSE /\ animationRef' = animationRef
                /\ intervals' = [id \in DOMAIN intervals \ {animationRef} |->
                                   intervals[id]]

\* lines 94-108: the animation effect after a render in which
\* animationRunning went from wasRunning to running and
\* sortedFilenames.length from oldLength to newLength.  The cleanup of the
\* previous run clears the interval animationRef.current names; then a new
\* interval is set, or the reference is cleared once more.
AnimationEffect(wasRunning, running, oldLength, newLength) ==
  IF wasRunning = running /\ oldLength = newLength
  THEN UNCHANGED timerVars
  ELSE LET left == DOMAIN intervals \ {animationRef}
           cleared == [id \in left |-> intervals[id]]
           timer == FreshTimer(left)
       IN  IF running /\ newLength > 0
           THEN /\ animationRef' = timer
                /\ intervals' = [id \in left \cup {timer} |->
                                   IF id = timer THEN newLength
                                   ELSE cleared[id]]
           ELSE /\ animationRef' = animationRef
                /\ intervals' = cleared

(***************************************************************************)
(* src/pages/index.js: handlers                                            *)
(***************************************************************************)
\* handleFileUpload up to its first await: the closure holds the images,
\* detectionMethod and contourThreshold of the render that created it
handleFileUpload(files) ==
  /\ Len(uploads) < MaxUploads
  /\ uploads' = Append(uploads,
                  [files |-> files, images |-> images,
                   detectionMethod |-> detectionMethod,
                   contourThreshold |-> contourThreshold])
  /\ event' = [handler |-> "handleFileUpload", outcome |-> "awaiting"]
  /\ UNCHANGED <<callVars, timerVars, imageVars, selectionVars, configVars, recordVars>>

\* handleFileUpload from its last await to its end (lines 398-408)
handleFileUpload_resume(i) ==
  LET result == UploadResult(uploads[i])
  IN  /\ uploads' = [j \in 1..(Len(uploads) - 1) |->
                       IF j < i THEN uploads[j] ELSE uploads[j + 1]]
      /\ event' = [handler |-> "handleFileUpload",
                   outcome |-> IF result.newLoaded THEN "loaded"
                               ELSE "nothing loaded",
                   upload |-> uploads[i]]
      /\ IF result.newLoaded
         THEN /\ Rerender(result.newImages,
                          SortedKeys(DOMAIN result.newImages), 0, TRUE,
                          centerXOffset, centerYOffset, radiusCorrection)
              /\ AnimationEffect(animationRunning, animationRunning,
                                 Len(sortedFilenames),
                                 Cardinality(DOMAIN result.newImages))
         ELSE UNCHANGED <<imageVars, selectionVars, timerVars>>
      /\ UNCHANGED <<callVars, configVars, recordVars>>

\* lines 496-510; extractZoomRegion cannot draw an object that is not an
\* image element: its catch returns image.src, which is undefined
createZoomedRegion(centerX, centerY) ==
  IF ~TruthyObject(currentImage) THEN zoomedRegion
  ELSE IF "src" \in DOMAIN currentImage THEN currentImage.src
  ELSE JSUndefined

SelectionState ==
  [currentSelection |-> currentSelection,
   selectionCoords |-> selectionCoords,
   heliographicCoords |-> heliographicCoords,
   distanceFromCenter |-> distanceFromCenter,
   zoomedRegion |-> zoomedRegion]

NoSelection ==
  [currentSelection |-> JSNull, selectionCoords |-> JSNull,
   heliographicCoords |-> JSNull, distanceFromCenter |-> JSNull,
   zoomedRegion |-> JSNull]

\* the call of lines 472-477: what the transform receives as solarData is
\* the number sunParams.cx; the three further arguments are ignored
TransformCall(origX, origY) ==
  calculateHeliographicCoordinates(
    origX, origY,
    IF sunParams.cx = ObjectRef THEN NestedSolarData
    ELSE JSNumber(sunParams.cx))

\* line 483: (dist / sunParams.radius) * 100
Percent(dist, radius) ==
  LET q == Quotient(dist, radius)
  IN  IF IsNaN(q) THEN NaN ELSE IF q = Infinity THEN Infinity ELSE 100 * q

\* lines 436-493: the outcome and the selection state it leaves
handleSelectionMade(selection) ==
  LET selX == selection.x + RoundDiv(selection.width, 2)
      selY == selection.y + RoundDiv(selection.height, 2)
      distance == MathHypot(Minus(selX, adjustedSunParams.cx),
                            Minus(selY, adjustedSunParams.cy))
      isOnSun == LE(distance,
                    IF IsNaN(adjustedSunParams.radius) THEN NaN
                    ELSE RoundDiv(adjustedSunParams.radius * 105, 100))
      origX == Unscaled(selX, imageScale)
      origY == Unscaled(selY, imageScale)
      result == TransformCall(origX, origY)
      dist == MathHypot(Minus(origX, sunParams.cx), Minus(origY, sunParams.cy))
  IN  IF ~disableBoundaryCheck /\ ~isOnSun
      THEN [outcome |-> "rejected", state |-> NoSelection]
      ELSE IF result.type = "TypeError"
      THEN [outcome |-> "TypeError", state |-> SelectionState]
      \* const { longitude, latitude } = null
      ELSE IF result.type = "null"
      THEN [outcome |-> "TypeError", state |-> SelectionState]
      ELSE [outcome |-> "selected",
            state |->
              [currentSelection |-> selection,
               selectionCoords |->
                 [display |-> [x |-> selX, y |-> selY],
                  original |-> [x |-> origX, y |-> origY]],
               heliographicCoords |->
                 [longitude |-> result.longitude,
                  latitude |-> result.latitude],
               distanceFromCenter |->
                 [pixels |-> dist,
                  percent |-> Percent(dist, sunParams.radius)],
               zoomedRegion |-> createZoomedRegion(origX, origY)]]

\* lines 418-431: the selection a click at (x, y) makes
StageSelection(x, y) ==
  IF selectionMode = "point"
  THEN [x |-> x, y |-> y, width |-> Px(1), height |-> Px(1)]
  ELSE [x |-> x - Px(10), y |-> y - Px(10),
        width |-> Px(20), height |-> Px(20)]

\* a click that is handled whatever the page shows
handleStageClick_always(x, y) ==
  LET made == handleSelectionMade(StageSelection(x, y))
  IN  /\ event' = [handler |-> "handleStageClick", outcome |-> made.outcome,
                   x |-> x, y |-> y]
      /\ currentSelection' = made.state.currentSelection
      /\ selectionCoords' = made.state.selectionCoords
      /\ heliographicCoords' = made.state.heliographicCoords
      /\ distanceFromCenter' = made.state.distanceFromCenter
      /\ zoomedRegion' = made.state.zoomedRegion
      /\ UNCHANGED <<callVars, timerVars, imageVars, configVars, recordVars, uploads>>

\* lines 412-433: a click at the pointer position (x, y) of the stage
handleStageClick(x, y) ==
  LET made == IF animationRunning \/ ~TruthyObject(currentImage)
              THEN [outcome |-> "ignored", state |-> SelectionState]
              ELSE handleSelectionMade(StageSelection(x, y))
  IN  /\ event' = [handler |-> "handleStageClick", outcome |-> made.outcome,
                   x |-> x, y |-> y]
      /\ currentSelection' = made.state.currentSelection
      /\ selectionCoords' = made.state.selectionCoords
      /\ heliographicCoords' = made.state.heliographicCoords
      /\ distanceFromCenter' = made.state.distanceFromCenter
      /\ zoomedRegion' = made.state.zoomedRegion
      /\ UNCHANGED <<callVars, timerVars, imageVars, configVars, recordVars, uploads>>

\* SidebarControls.js line 209
setDisableBoundaryCheck(checked) ==
  /\ disableBoundaryCheck' = checked
  /\ event' = [handler |-> "setDisableBoundaryCheck", outcome |-> "set"]
  /\ UNCHANGED <<callVars, timerVars, imageVars, selectionVars, recordVars, uploads,
                 animationRunning, selectionMode, radiusCorrection,
                 centerXOffset, centerYOffset, detectionMethod,
                 contourThreshold, forceFitsData>>

\* SidebarControls.js lines 118 and 129
setSelectionMode(mode) ==
  /\ selectionMode' = mode
  /\ event' = [handler |-> "setSelectionMode", outcome |-> "set"]
  /\ UNCHANGED <<callVars, timerVars, imageVars, selectionVars, recordVars, uploads,
                 animationRunning, disableBoundaryCheck, radiusCorrection,
                 centerXOffset, centerYOffset, detectionMethod,
                 contourThreshold, forceFitsData>>

\* the correction applied to the stored radius itself
setRadiusCorrection_inplace(value) ==
  /\ radiusCorrection' = value
  /\ event' = [handler |-> "setRadiusCorrection", outcome |-> "set"]
  /\ sunParams' =
       [sunParams EXCEPT
          !.radius = IF IsNaN(@) THEN NaN ELSE RoundDiv(@ * value, 100)]
  /\ adjustedSunParams' = sunParams'
  /\ UNCHANGED <<callVars, timerVars, recordVars, uploads, animationRunning,
                 selectionMode, disableBoundaryCheck, centerXOffset,
                 centerYOffset, detectionMethod, contourThreshold,
                 forceFitsData, images, sortedFilenames, currentImageIndex, currentImage,
                 imageScale, obsTime, selectionVars>>

\* SidebarControls.js lines 52-59: the slider runs from 1.0 to 7.0 in steps
\* of 0.05; the effect of lines 161-173 runs after the change
setRadiusCorrection(value) ==
  /\ radiusCorrection' = value
  /\ event' = [handler |-> "setRadiusCorrection", outcome |-> "set"]
  /\ Rerender(images, sortedFilenames, currentImageIndex, FALSE,
              centerXOffset, centerYOffset, value)
  /\ UNCHANGED <<callVars, timerVars, recordVars, uploads, animationRunning,
                 selectionMode, disableBoundaryCheck, centerXOffset,
                 centerYOffset, detectionMethod, contourThreshold,
                 forceFitsData>>

\* SidebarControls.js lines 73-81: -350 to 350 in steps of 1
setCenterXOffset(value) ==
  /\ centerXOffset' = value
  /\ event' = [handler |-> "setCenterXOffset", outcome |-> "set"]
  /\ Rerender(images, sortedFilenames, currentImageIndex, FALSE,
              value, centerYOffset, radiusCorrection)
  /\ UNCHANGED <<callVars, timerVars, recordVars, uploads, animationRunning,
                 selectionMode, disableBoundaryCheck, radiusCorrection,
                 centerYOffset, detectionMethod, contourThreshold,
                 forceFitsData>>

\* SidebarControls.js lines 91-99
setCenterYOffset(value) ==
  /\ centerYOffset' = value
  /\ event' = [handler |-> "setCenterYOffset", outcome |-> "set"]
  /\ Rerender(images, sortedFilenames, currentImageIndex, FALSE,
              centerXOffset, value, radiusCorrection)
  /\ UNCHANGED <<callVars, timerVars, recordVars, uploads, animationRunning,
                 selectionMode, disableBoundaryCheck, radiusCorrection,
                 centerXOffset, detectionMethod, contourThreshold,
                 forceFitsData>>

\* SidebarControls.js lines 240 and 247: Pause and Play
setAnimationRunning(value) ==
  /\ animationRunning' = value
  /\ event' = [handler |-> "setAnimationRunning", outcome |-> "set"]
  /\ AnimationEffect(animationRunning, value, Len(sortedFilenames),
                     Len(sortedFilenames))
  /\ UNCHANGED <<callVars, imageVars, selectionVars, recordVars, uploads,
                 selectionMode, disableBoundaryCheck, radiusCorrection,
                 centerXOffset, centerYOffset, detectionMethod,
                 contourThreshold, forceFitsData>>

\* the index stepped back with nothing else of the page refreshed
Previous_stale ==
  /\ currentImageIndex' = MathMax(0, currentImageIndex - 1)
  /\ animationRunning' = FALSE
  /\ event' = [handler |-> "Previous", outcome |-> "set"]
  /\ AnimationEffect(animationRunning, FALSE, Len(sortedFilenames),
                     Len(sortedFilenames))
  /\ UNCHANGED <<callVars, recordVars, uploads, selectionMode,
                 disableBoundaryCheck, radiusCorrection, centerXOffset,
                 centerYOffset, detectionMethod, contourThreshold,
                 forceFitsData, images, sortedFilenames, currentImage,
                 sunParams, adjustedSunParams, imageScale, obsTime,
                 selectionVars>>

\* SidebarControls.js lines 257-260
Previous ==
  LET index == MathMax(0, currentImageIndex - 1)
  IN  /\ animationRunning' = FALSE
      /\ event' = [handler |-> "Previous", outcome |-> "set"]
      /\ Rerender(images, sortedFilenames, index, index # currentImageIndex,
                  centerXOffset, centerYOffset, radiusCorrection)
      /\ AnimationEffect(animationRunning, FALSE, Len(sortedFilenames),
                         Len(sortedFilenames))
      /\ UNCHANGED <<callVars, recordVars, uploads, selectionMode,
                     disableBoundaryCheck, radiusCorrection, centerXOffset,
                     centerYOffset, detectionMethod, contourThreshold,
                     forceFitsData>>

\* SidebarControls.js lines 266-269; totalImages is sortedFilenames.length
\* (index.js line 569)
NextImage ==
  LET index == MathMin(Len(sortedFilenames) - 1, currentImageIndex + 1)
  IN  /\ animationRunning' = FALSE
      /\ event' = [handler |-> "Next", outcome |-> "set"]
      /\ Rerender(images, sortedFilenames, index, index # currentImageIndex,
                  centerXOffset, centerYOffset, radiusCorrection)
      /\ AnimationEffect(animationRunning, FALSE, Len(sortedFilenames),
                         Len(sortedFilenames))
      /\ UNCHANGED <<callVars, recordVars, uploads, selectionMode,
                     disableBoundaryCheck, radiusCorrection, centerXOffset,
                     centerYOffset, detectionMethod, contourThreshold,
                     forceFitsData>>

\* index.js lines 96-98: the callback of the interval id fires
AnimationTick(id) ==
  /\ id \in DOMAIN intervals
  /\ event' = [handler |-> "tick", outcome |-> "set"]
  /\ Rerender(images, sortedFilenames,
              (currentImageIndex + 1) % intervals[id],
              (currentImageIndex + 1) % intervals[id] # currentImageIndex,
              centerXOffset, centerYOffset, radiusCorrection)
  /\ UNCHANGED <<callVars, timerVars, configVars, recordVars, uploads>>

\* SidebarControls.js line 41
setForceFitsData(checked) ==
  /\ forceFitsData' = checked
  /\ event' = [handler |-> "setForceFitsData", outcome |-> "set"]
  /\ UNCHANGED <<callVars, timerVars, imageVars, selectionVars, recordVars,
                 uploads, animationRunning, selectionMode,
                 disableBoundaryCheck, radiusCorrection, centerXOffset,
                 centerYOffset, detectionMethod, contourThreshold>>

\* SidebarControls.js lines 138-170: the two radio buttons are rendered
\* while forceFitsData is off; the effect of lines 111-158 runs when the
\* value changes
setDetectionMethod(method) ==
  /\ ~forceFitsData
  /\ detectionMethod' = method
  /\ event' = [handler |-> "setDetectionMethod", outcome |-> "set"]
  /\ RerenderWith(images, sortedFilenames, currentImageIndex,
                  method # detectionMethod, centerXOffset, centerYOffset,
                  radiusCorrection, method, contourThreshold)
  /\ UNCHANGED <<callVars, timerVars, recordVars, uploads, animationRunning,
                 selectionMode, disableBoundaryCheck, radiusCorrection,
                 centerXOffset, centerYOffset, contourThreshold,
                 forceFitsData>>

\* SidebarControls.js lines 176-184: 1 to 50 in steps of 1
setContourThreshold(value) ==
  /\ contourThreshold' = value
  /\ event' = [handler |-> "setContourThreshold", outcome |-> "set"]
  /\ RerenderWith(images, sortedFilenames, currentImageIndex,
                  value # contourThreshold, centerXOffset, centerYOffset,
                  radiusCorrection, detectionMethod, value)
  /\ UNCHANGED <<callVars, timerVars, recordVars, uploads, animationRunning,
                 selectionMode, disableBoundaryCheck, radiusCorrection,
                 centerXOffset, centerYOffset, detectionMethod,
                 forceFitsData>>

\* index.js line 640: the label field and the Record button are rendered
\* only while a selection is shown
SelectionShown == ~animationRunning /\ selectionCoords # JSNull

\* index.js line 669
setFeatureLabel(value) ==
  /\ SelectionShown
  /\ featureLabel' = value
  /\ event' = [handler |-> "setFeatureLabel", outcome |-> "set"]
  /\ UNCHANGED <<callVars, timerVars, imageVars, selectionVars, configVars, uploads,
                 measurements>>

\* the longest list of measurements followed
MaxMeasurements == 2

\* a measurement that drops the label typed
Measurement_unlabelled ==
  [image |-> sortedFilenames[currentImageIndex + 1],
   observationTime |-> IF obsTime = "null" THEN "Unknown" ELSE obsTime,
   pixelX |-> selectionCoords.original.x,
   pixelY |-> selectionCoords.original.y,
   helioLongitude |-> heliographicCoords.longitude,
   helioLatitude |-> heliographicCoords.latitude,
   distancePercent |-> distanceFromCenter.percent,
   label |-> ""]

\* index.js lines 516-525
Measurement ==
  [image |-> sortedFilenames[currentImageIndex + 1],
   observationTime |-> IF obsTime = "null" THEN "Unknown" ELSE obsTime,
   pixelX |-> selectionCoords.original.x,
   pixelY |-> selectionCoords.original.y,
   helioLongitude |-> heliographicCoords.longitude,
   helioLatitude |-> heliographicCoords.latitude,
   distancePercent |-> distanceFromCenter.percent,
   label |-> featureLabel]

\* the new measurement put in front of the list
recordMeasurement_prepend ==
  /\ SelectionShown
  /\ Len(measurements) < MaxMeasurements
  /\ IF \/ selectionCoords = JSNull
        \/ heliographicCoords = JSNull
        \/ distanceFromCenter = JSNull
     THEN /\ event' = [handler |-> "recordMeasurement",
                       outcome |-> "ignored"]
          /\ UNCHANGED recordVars
     ELSE /\ measurements' = <<Measurement>> \o measurements
          /\ featureLabel' = ""
          /\ event' = [handler |-> "recordMeasurement",
                       outcome |-> "recorded"]
  /\ UNCHANGED <<callVars, timerVars, imageVars, selectionVars, configVars, uploads>>

\* index.js lines 513-531
recordMeasurement ==
  /\ SelectionShown
  /\ Len(measurements) < MaxMeasurements
  /\ IF \/ selectionCoords = JSNull
        \/ heliographicCoords = JSNull
        \/ distanceFromCenter = JSNull
     THEN /\ event' = [handler |-> "recordMeasurement",
                       outcome |-> "ignored"]
          /\ UNCHANGED recordVars
     ELSE /\ measurements' = Append(measurements, Measurement)
          /\ featureLabel' = ""
          /\ event' = [handler |-> "recordMeasurement",
                       outcome |-> "recorded"]
  /\ UNCHANGED <<callVars, timerVars, imageVars, selectionVars, configVars, uploads>>

\* pointer positions of the clicks on the stage
ClickXs == {Px(0), Px(379), Px(400), Px(750), Px(800)}
ClickYs == {Px(0), Px(200), Px(400)}

\* what is dropped on the upload panel while the page is in use: an image
\* alone, an image with its sun_params sidecar, an image with its header
\* sidecar
Drops ==
  {<<File_sun_png>>, <<File_sun_png, File_sun_json>>,
   <<File_su_png, File_su_json>>}

\* positions of the three sliders
RadiusCorrections == {100, 105, 700}
CenterXOffsets == {Px(-350), Px(0)}
CenterYOffsets == {Px(0), Px(350)}

\* texts typed into the label field
Labels == {"", "spot"}

\* no upload is awaiting its file reads: the user drops the next files
\* when the previous ones are loaded
Idle == uploads = <<>>

Init ==
  /\ call = [fn |-> "none"]
  /\ ret = [by |-> "none"]
  /\ HomeInit

\* the upload panel alone, for every list of files
NextUpload ==
  \/ \E files \in FileLists : Idle /\ handleFileUpload(files)
  \/ \E i \in 1..Len(uploads) : handleFileUpload_resume(i)

SpecUpload == Init /\ [][NextUpload]_vars

Next ==
  \/ \E files \in Drops : Idle /\ handleFileUpload(files)
  \/ \E i \in 1..Len(uploads) : handleFileUpload_resume(i)
  \/ \E x \in ClickXs, y \in ClickYs : handleStageClick(x, y)
  \/ \E checked \in BOOLEAN : setDisableBoundaryCheck(checked)
  \/ \E mode \in {"rect", "point"} : setSelectionMode(mode)

Spec == Init /\ [][Next]_vars

\* loading images and moving the three sliders
NextAdjust ==
  \/ \E files \in Drops : Idle /\ handleFileUpload(files)
  \/ \E i \in 1..Len(uploads) : handleFileUpload_resume(i)
  \/ \E value \in RadiusCorrections : setRadiusCorrection(value)
  \/ \E value \in CenterXOffsets : setCenterXOffset(value)
  \/ \E value \in CenterYOffsets : setCenterYOffset(value)

SpecAdjust == Init /\ [][NextAdjust]_vars

\* clicks at the disc centre, on the disc and off the disc of sun.png
RecordClicks ==
  {<<Px(400), Px(400)>>, <<Px(400), Px(200)>>, <<Px(800), Px(0)>>}

\* loading an image, picking points and recording them
NextRecord ==
  \/ Idle /\ handleFileUpload(<<File_sun_png, File_sun_json_nested>>)
  \/ \E i \in 1..Len(uploads) : handleFileUpload_resume(i)
  \/ \E click \in RecordClicks : handleStageClick(click[1], click[2])
  \/ \E checked \in BOOLEAN : setDisableBoundaryCheck(checked)
  \/ \E value \in Labels : setFeatureLabel(value)
  \/ recordMeasurement

SpecRecord == Init /\ [][NextRecord]_vars

\* loading images, stepping and animating through them and switching the
\* detection settings
NextBrowse ==
  \/ \E files \in Drops : Idle /\ handleFileUpload(files)
  \/ \E i \in 1..Len(uploads) : handleFileUpload_resume(i)
  \/ Previous
  \/ NextImage
  \/ \E value \in BOOLEAN : setAnimationRunning(value)
  \/ \E id \in DOMAIN intervals : AnimationTick(id)
  \/ \E checked \in BOOLEAN : setForceFitsData(checked)
  \/ \E method \in {"center", "detect"} : setDetectionMethod(method)
  \/ \E value \in {15, 50} : setContourThreshold(value)

SpecBrowse == Init /\ [][NextBrowse]_vars

\* clicks at the disc centre and at the right-hand limb of sun.png
GateClicks == {<<Px(400), Px(400)>>, <<Px(750), Px(400)>>}

\* sun.png with its sidecar loaded, the three sliders moved and points
\* picked
NextGate ==
  \/ Idle /\ handleFileUpload(<<File_sun_png, File_sun_json>>)
  \/ \E i \in 1..Len(uploads) : handleFileUpload_resume(i)
  \/ \E value \in RadiusCorrections : setRadiusCorrection(value)
  \/ \E value \in CenterXOffsets : setCenterXOffset(value)
  \/ \E value \in CenterYOffsets : setCenterYOffset(value)
  \/ \E click \in GateClicks : handleStageClick(click[1], click[2])

SpecGate == Init /\ [][NextGate]_vars

\* files dropped while earlier ones may still be read
OverlapDrops ==
  {<<File_sun_png, File_sun_json>>, <<File_su_png, File_su_json>>,
   <<File_su_png>>}

\* uploads that overlap, and stepping through the images
NextOverlap ==
  \/ \E files \in OverlapDrops : handleFileUpload(files)
  \/ \E i \in 1..Len(uploads) : handleFileUpload_resume(i)
  \/ Previous
  \/ NextImage

SpecOverlap == Init /\ [][NextOverlap]_vars

\* two images dropped together, su.png with its header sidecar and sun.png
\* with the sidecar on which picks succeed
PickDrop ==
  <<File_su_png, File_su_json, File_sun_png, File_sun_json_nested>>

\* loading the two images, stepping and animating through them, picking
\* points and recording them
NextPick ==
  \/ Idle /\ handleFileUpload(PickDrop)
  \/ \E i \in 1..Len(uploads) : handleFileUpload_resume(i)
  \/ \E click \in RecordClicks : handleStageClick(click[1], click[2])
  \/ \E checked \in BOOLEAN : setDisableBoundaryCheck(checked)
  \/ Previous
  \/ NextImage
  \/ \E value \in BOOLEAN : setAnimationRunning(value)
  \/ \E id \in DOMAIN intervals : AnimationTick(id)
  \/ \E value \in Labels : setFeatureLabel(value)
  \/ recordMeasurement

SpecPick == Init /\ [][NextPick]_vars

(***************************************************************************)
(* Properties of the pure functions (SpecCalc)                             *)
(***************************************************************************)
TransformReturned == call.fn = "transform" /\ ret.by # "none"
ResolveReturned == call.fn = "resolve" /\ ret.by # "none"

\* the squared pixel distance of the point from the disc centre, exactly
SquaredDistance ==
  (call.x - call.sun_params.cx) * (call.x - call.sun_params.cx)
  + (call.y - call.sun_params.cy) * (call.y - call.sun_params.cy)

RadiusSquared == call.sun_params.radius * call.sun_params.radius

NumericHeader ==
  /\ call.header.type = "object"
  /\ ~IsNaN(call.header.B0) /\ ~IsNaN(call.header.L0)
  /\ ~IsNaN(call.header.P_ANGLE)

\* strict rho > 1: the distance exceeds a radius that is not negative
StrictlyOutside ==
  \/ call.sun_params.radius > 0 /\ SquaredDistance > RadiusSquared
  \/ call.sun_params.radius = 0 /\ SquaredDistance > 0

OnDisk == call.sun_params.radius > 0 /\ SquaredDistance <= RadiusSquared

Scenario(x, y) ==
  /\ call.fn = "transform"
  /\ call.x = Px(x) /\ call.y = Px(y)
  /\ call.sun_params = SunParams(Px(400), Px(400), Px(350))
  /\ call.header = Header(0, 0, 0)

\* C1: every point whose strict rho exceeds 1 makes the transform return
\* null (the off-disk signal), never a coordinate object; the point
\* (1200, 400) on the disc {cx:400, cy:400, radius:350} is such a point.
C1_OffDiskIsNull ==
  /\ (TransformReturned /\ call.header.type = "object" /\ StrictlyOutside)
       => ret.value = JSNull
  /\ (Scenario(1200, 400) /\ ret.by # "none") => ret.value = JSNull

C1_Witness ==
  /\ Scenario(1200, 400)
  /\ ret.by = "utils"
  /\ ret.value = JSNull

\* C2: for radius > 0, a point with rho <= 1 and numeric B0, L0, P_ANGLE the
\* returned longitude is at least 0 and less than 360.
C2_LongitudeNormalized ==
  (TransformReturned /\ NumericHeader /\ OnDisk)
    => /\ ret.value.type = "object"
       /\ ret.value.longitude >= 0
       /\ ret.value.longitude < 360

C2_Witness ==
  /\ TransformReturned /\ OnDisk /\ NumericHeader
  /\ call.header.L0 = -(145 * MaxL0)
  /\ ret.by = "utils"
  /\ ret.value.type = "object"
  /\ ret.value.longitude \in 0..359

\* C3 (as claimed): with the disc {cx:400, cy:400, radius:350} and
\* B0 = L0 = P_ANGLE = 0, the point (400, 400) is transformed to exactly
\* {longitude: 0, latitude: 0, rho: 0}.
C3_CentreScenario ==
  (Scenario(400, 400) /\ ret.by # "none")
    => ret.value = Coordinates(0, 0, 0)

\* C4: for radius > 0, B0 in [-90, 90] and any L0 and P_ANGLE, the centre
\* point (x = cx, y = cy) is transformed to rho = 0 and latitude = B0.
C4_CentreLatitudeIsB0 ==
  (/\ TransformReturned /\ NumericHeader
   /\ call.sun_params.radius > 0
   /\ call.header.B0 \in (-90)..90
   /\ call.x = call.sun_params.cx /\ call.y = call.sun_params.cy)
    => /\ ret.value.type = "object"
       /\ ret.value.rho = 0
       /\ ret.value.latitude = call.header.B0

C4_Witness ==
  /\ TransformReturned
  /\ call.sun_params = SunParams(Px(400), Px(300), Px(270))
  /\ call.x = Px(400) /\ call.y = Px(300)
  /\ call.header = Header(7, 145, 26)
  /\ ret.by = "SidebarControls"
  /\ ret.value.type = "object"
  /\ ret.value.rho = 0
  /\ ret.value.latitude = 7

\* C5 (as claimed): resolving the geometry of an image whose width or
\* height is not positive fails with InvalidGeometry; no {cx, cy, radius}
\* is produced for it.
C5_NonPositiveSizeRejected ==
  (/\ ResolveReturned
   /\ (call.image.width <= 0 \/ call.image.height <= 0))
    => ret.value.type = "InvalidGeometry"

\* C8 (as claimed): a coordinate object is only ever returned for a geometry
\* whose radius is positive; a zero or negative radius is rejected before
\* rho is computed.
C8_RadiusPositiveBeforeUse ==
  (TransformReturned /\ ret.value.type = "object")
    => call.sun_params.radius > 0

\* C9 (as claimed): when the orientation is absent (no header, or a header
\* without B0, L0 and P_ANGLE) the three angles default to 0: an on-disk
\* point gets the numeric longitude and latitude computed with
\* B0 = L0 = P_ANGLE = 0.
C9_AbsentOrientationIsZero ==
  (/\ TransformReturned /\ OnDisk
   /\ call.header \in {JSUndefined, Header(Undefined, Undefined, Undefined)})
    => /\ ret.value.type = "object"
       /\ ~IsNaN(ret.value.latitude)
       /\ ~IsNaN(ret.value.longitude)
       /\ ret.value =
            calculateHeliographicCoordinates(
              call.x, call.y, SolarData(call.sun_params, Header(0, 0, 0)))

\* C10: without trusted parameters the resolved geometry is cx = width/2,
\* cy = height/2, radius = min(width, height) * 0.45 for every image size;
\* an 800x600 image gives {cx:400, cy:300, radius:270}.
C10_FallbackEstimate ==
  /\ ResolveReturned
       => /\ ret.value.type = "object"
          /\ 2 * ret.value.cx = call.image.width
          /\ 2 * ret.value.cy = call.image.height
          /\ \E m \in {call.image.width, call.image.height} :
               /\ m <= call.image.width /\ m <= call.image.height
               /\ 100 * ret.value.radius = 45 * m
  /\ (ResolveReturned /\ call.image = JSImage(Px(800), Px(600)))
       => ret.value = SunParams(Px(400), Px(300), Px(270))

C10_Witness ==
  /\ ResolveReturned
  /\ call.image = JSImage(Px(800), Px(600))
  /\ ret.by = "utils"
  /\ ret.value = SunParams(Px(400), Px(300), Px(270))

\* C21: the contour-detection mode is a stub: for every image both copies of
\* determineImageCenterAndRadius return the same {cx, cy, radius} whether
\* assumeCentered is true or false and whatever the contourThreshold.
C21_DetectionIsStub ==
  ResolveReturned
    => \A centered \in BOOLEAN, threshold \in {1, 15, 50} :
         ret.value =
           IF ret.by = "utils"
           THEN determineImageCenterAndRadius(call.image, centered, threshold)
           ELSE SC_determineImageCenterAndRadius(call.image, centered,
                                                 threshold)

\* an 800x600 image in contour mode with threshold 50: {400, 300, 270}
C21_Witness ==
  /\ ResolveReturned
  /\ ret.by = "SidebarControls"
  /\ call.image = JSImage(Px(800), Px(600))
  /\ ~call.assumeCentered
  /\ call.contourThreshold = 50
  /\ ret.value = SunParams(Px(400), Px(300), Px(270))

\* C16: for every geometry with radius > 0 and every point for which the
\* transform returns coordinates, the returned rho is the Euclidean pixel
\* distance from the centre divided by the radius, not clamped (it is the
\* quotient to within one unit of the number representation), and it lies
\* in [0, 1].
C16_RhoIsDistanceOverRadius ==
  (/\ TransformReturned
   /\ call.sun_params.radius > 0
   /\ ret.value.type = "object")
    => /\ ret.value.rho * call.sun_params.radius
            >= MathSqrt(SquaredDistance) * Unit
       /\ (ret.value.rho - 1) * call.sun_params.radius
            < MathSqrt(SquaredDistance) * Unit
       /\ ret.value.rho >= 0
       /\ ret.value.rho <= Unit

\* (400, 200) on the disc {400, 400, 350}: rho = 200/350 = 0.5714...
C16_Witness ==
  /\ TransformReturned
  /\ call.sun_params = SunParams(Px(400), Px(400), Px(350))
  /\ call.x = Px(400) /\ call.y = Px(200)
  /\ ret.value.type = "object"
  /\ ret.value.rho = 5715

\* C17: the argument of asin in the latitude step is clamped to [-1, 1]
\* first, so for every on-disk point (radius > 0, rho <= 1, numeric B0, L0
\* and P_ANGLE) the returned latitude is a number in [-90, 90]: asin never
\* yields NaN.
C17_LatitudeInRange ==
  (TransformReturned /\ NumericHeader /\ OnDisk)
    => /\ ret.value.type = "object"
       /\ ~IsNaN(ret.value.latitude)
       /\ ret.value.latitude >= -90
       /\ ret.value.latitude <= 90

\* (400, 54) on the disc {400, 300, 270} with B0 = 8: the sum of products
\* that is the argument of asin comes out just above 1 (1.0000000000000002
\* in double arithmetic) and is clamped to 1; the latitude is 90
C17_Witness ==
  /\ TransformReturned
  /\ call.sun_params = SunParams(Px(400), Px(300), Px(270))
  /\ call.x = Px(400) /\ call.y = Px(54)
  /\ call.header = Header(8, 0, 0)
  /\ ret.by = "utils"
  /\ ret.value.type = "object"
  /\ ret.value.latitude = 90

\* the offsets of the point of the call from the disc centre, lines 32-33
CallDx == call.x - call.sun_params.cx
CallDy == call.sun_params.cy - call.y

\* line 45 with P_ANGLE = 0: theta for the offsets (dx, dy)
ThetaOf(dx, dy) == Minus(radiansToDegrees(MathAtan2(dx, dy)), 0)

\* the transform computed a position angle with P_ANGLE = 0
ThetaComputed ==
  /\ TransformReturned
  /\ ret.value.type = "object"
  /\ call.header.type = "object"
  /\ call.header.P_ANGLE = 0

\* C20 (as claimed): reflecting a point vertically through the disc centre
\* (dy replaced by -dy, dx unchanged) negates the position angle
\* theta = atan2(dx, dy) computed by the transform (with P_ANGLE = 0).
C20_ReflectionNegatesTheta ==
  ThetaComputed => ThetaOf(CallDx, -CallDy) = -ThetaOf(CallDx, CallDy)

\* C20 (amended): for a point that is not the centre, reflecting it
\* vertically through the disc centre maps theta to its supplement:
\* 180 - theta for theta >= 0 and -180 - theta for theta < 0; with B0 = 0
\* the reflected point gets the opposite latitude.
C20_ReflectionSupplementsTheta ==
  (ThetaComputed /\ (CallDx # 0 \/ CallDy # 0))
    => /\ ThetaOf(CallDx, -CallDy) =
            IF ThetaOf(CallDx, CallDy) >= 0
            THEN 180 - ThetaOf(CallDx, CallDy)
            ELSE -180 - ThetaOf(CallDx, CallDy)
       /\ (ret.by = "utils" /\ call.header.B0 = 0 /\ OnDisk)
            => calculateHeliographicCoordinates(
                 call.x, 2 * call.sun_params.cy - call.y,
                 SolarData(call.sun_params, call.header)).latitude
               = -ret.value.latitude

\* (600, 200) on the disc {400, 400, 350}: theta = 45; its mirror image
\* (600, 600) has theta = 135
C20_Witness ==
  /\ ThetaComputed
  /\ call.sun_params = SunParams(Px(400), Px(400), Px(350))
  /\ call.x = Px(600) /\ call.y = Px(200)
  /\ ThetaOf(CallDx, CallDy) = 45
  /\ ThetaOf(CallDx, -CallDy) = 135

NormalizeReturned == call.fn = "normalize" /\ ret.by # "none"

\* C18 (as claimed): the two longitude normalisations of the repository
\* agree: for every finite raw longitude L the repeated +/-360 adjustment
\* gives the same value as ((L % 360) + 360) % 360, and that value is in
\* [0, 360).
C18_NormalisationsAgree ==
  NormalizeReturned
    => /\ ret.value = Number_WhileAtLeast360(Number_WhileNegative(call.L))
       /\ ret.value = Number_PositiveModulo(call.L)
       /\ ret.value >= 0
       /\ ret.value < Degrees(360)

MemberReturned == call.fn = "member" /\ ret.by # "none"

\* 1.05 times the corrected radius of the membership call (exact: the
\* radius is a whole number of pixels)
LenientBound ==
  (21 * CorrectedRadius(call.radius, call.radiusCorrection)) \div 20

MemberSquaredDistance ==
  (call.x - call.centre[1]) * (call.x - call.centre[1])
  + (call.y - call.centre[2]) * (call.y - call.centre[2])

\* C12 (as claimed): the lenient membership check accepts every point whose
\* distance from the disc centre is at most 1.05 times the radius and
\* rejects every point beyond 1.05 times the radius; the strict gate of the
\* transform is separate: the transform returns coordinates exactly for the
\* points with rho <= 1.
C12_LenientGate ==
  /\ (MemberReturned /\ call.radius > 0)
       => (ret.value <=> MemberSquaredDistance <= LenientBound * LenientBound)
  /\ (TransformReturned /\ NumericHeader /\ call.sun_params.radius > 0)
       => (ret.value.type = "object" <=> SquaredDistance <= RadiusSquared)

(***************************************************************************)
(* Properties of the Home component (Spec)                                 *)
(***************************************************************************)
\* the last handler was a click whose selection was passed to the transform
PassedToTransform ==
  /\ event.handler = "handleStageClick"
  /\ event.outcome \notin {"ignored", "rejected"}

\* the point of the last click in original-image coordinates
PickedX ==
  Unscaled(StageSelection(event.x, event.y).x
             + RoundDiv(StageSelection(event.x, event.y).width, 2),
           imageScale)
PickedY ==
  Unscaled(StageSelection(event.x, event.y).y
             + RoundDiv(StageSelection(event.x, event.y).height, 2),
           imageScale)

PickedSquaredDistance ==
  (PickedX - sunParams.cx) * (PickedX - sunParams.cx)
  + (PickedY - sunParams.cy) * (PickedY - sunParams.cy)

GeometryUsable ==
  /\ ~IsNaN(sunParams.cx) /\ ~IsNaN(sunParams.cy) /\ ~IsNaN(sunParams.radius)
  /\ sunParams.radius > 0

\* C6 (as claimed): when a selection that is passed to the transform lies
\* off the disc (strict rho > 1), the handler reports no coordinates and
\* throws no fault.
C6_OffDiskHandledWithoutFault ==
  (/\ PassedToTransform /\ GeometryUsable
   /\ PickedSquaredDistance > sunParams.radius * sunParams.radius)
    => /\ event.outcome # "TypeError"
       /\ heliographicCoords = JSNull

\* C7 (as claimed): after an accepted pick on the disc, heliographicCoords
\* holds exactly the longitude and latitude the transform returns for the
\* picked point in original-image coordinates and the geometry of the
\* current image (for the orientation that belongs to the image).
C7_DisplayedCoordsAreTransformResult ==
  (/\ PassedToTransform /\ GeometryUsable
   /\ PickedSquaredDistance <= sunParams.radius * sunParams.radius)
    => \E header \in Headers :
         LET result == calculateHeliographicCoordinates(
                         PickedX, PickedY, SolarData(sunParams, header))
         IN  /\ result.type = "object"
             /\ heliographicCoords =
                  [longitude |-> result.longitude,
                   latitude |-> result.latitude]

\* the last handler was an upload that ran to its end
UploadDone ==
  /\ event.handler = "handleFileUpload"
  /\ event.outcome \in {"loaded", "nothing loaded"}

\* the image files that the last upload added to images
NewlyLoaded ==
  {f \in {event.upload.files[k] : k \in 1..Len(event.upload.files)} :
     /\ event.outcome = "loaded"
     /\ Extension(f.name) \in {EXT_png, EXT_jpg, EXT_jpeg}
     /\ f.name \in DOMAIN images
     /\ f.name \notin DOMAIN event.upload.images}

\* the JSON files of the last upload that have the base name of file f
SidecarsOf(f) ==
  {j \in {event.upload.files[k] : k \in 1..Len(event.upload.files)} :
     Extension(j.name) = EXT_json /\ BaseName(j.name) = BaseName(f.name)}

\* the image f is the one on display
IsCurrent(f) ==
  /\ currentImageIndex + 1 \in 1..Len(sortedFilenames)
  /\ sortedFilenames[currentImageIndex + 1] = f.name

C19_HeaderGeometryTaken ==
  UploadDone
    => \A f \in NewlyLoaded : \A j \in SidecarsOf(f) :
         (/\ "sun_params" \notin DOMAIN j.metadata
          /\ "header" \in DOMAIN j.metadata
          /\ {"FNDLMBXC", "FNDLMBYC", "FNDLMBMI", "FNDLMBMA"}
                \subseteq DOMAIN j.metadata.header)
           => /\ images[f.name].sunParams.cx = j.metadata.header.FNDLMBXC
              /\ images[f.name].sunParams.cy = j.metadata.header.FNDLMBYC
              /\ 2 * images[f.name].sunParams.radius =
                   j.metadata.header.FNDLMBMI + j.metadata.header.FNDLMBMA

(***************************************************************************)
(* Properties of the sliders (SpecAdjust) and of recording (SpecRecord)    *)
(***************************************************************************)
\* the step is a change of one of the three sliders
AdjustmentStep ==
  event'.handler \in
    {"setRadiusCorrection", "setCenterXOffset", "setCenterYOffset"}

\* C13: a change of radiusCorrection, centerXOffset or centerYOffset
\* changes only the derived adjustedSunParams (and the slider value): it
\* leaves sunParams, every stored images[*].sunParams and the rest of the
\* image, selection and measurement state unchanged.
C13_AdjustmentsKeepGeometry ==
  [][AdjustmentStep
       => /\ sunParams' = sunParams
          /\ images' = images
          /\ UNCHANGED <<sortedFilenames, currentImageIndex, currentImage,
                         imageScale, obsTime, selectionVars, recordVars,
                         uploads>>]_vars

\* the slider moved to 7.0 while sun.png with sun.json is on display: the
\* adjusted radius is 7 * 350 and the stored radius is still 350
C13_Witness ==
  /\ event.handler = "setRadiusCorrection"
  /\ radiusCorrection = 700
  /\ adjustedSunParams.radius = Px(2450)
  /\ sunParams = SunParams(Px(400), Px(400), Px(350))
  /\ images[File_sun_png.name].sunParams =
       SunParams(Px(400), Px(400), Px(350))

\* C15: the measurements list is append-only and kept in insertion order:
\* in every step the list before the step is a prefix of the list after
\* it, so no recorded measurement is ever removed, reordered or modified.
C15_MeasurementsAppendOnly ==
  [][/\ Len(measurements') >= Len(measurements)
     /\ SubSeq(measurements', 1, Len(measurements)) = measurements]_vars

\* two different measurements have been recorded, the first one first
C15_Witness ==
  /\ Len(measurements) = 2
  /\ measurements[1].label = "spot"
  /\ measurements[2].label = ""
  /\ event = [handler |-> "recordMeasurement", outcome |-> "recorded"]

(***************************************************************************)
(* Properties of stepping through the images (SpecBrowse)                  *)
(***************************************************************************)
\* the step is a change of the detection method or the contour threshold
DetectionStep ==
  event'.handler \in {"setDetectionMethod", "setContourThreshold"}

\* In the page the stub of C21 is not even reached by these two controls:
\* every stored image has its sunParams from the upload, so the effect of
\* lines 137-148 takes the stored geometry and a change of detectionMethod
\* or contourThreshold leaves images, sunParams and adjustedSunParams as
\* they are.
DetectionSettingsKeepGeometry ==
  [][DetectionStep => UNCHANGED <<images, sunParams, adjustedSunParams>>]_vars

\* C22 (as claimed): currentImageIndex is never negative and, whenever at
\* least one image is loaded, it is less than the number of loaded images
\* and sortedFilenames[currentImageIndex] names a loaded image; this
\* includes Next or Previous pressed while no image is loaded.
C22_IndexInRange ==
  /\ currentImageIndex >= 0
  /\ Len(sortedFilenames) > 0
       => /\ currentImageIndex < Len(sortedFilenames)
          /\ sortedFilenames[currentImageIndex + 1] \in DOMAIN images

\* sunParams.cx * imageScale + centerXOffset and so on, for the current
\* values
AdjustedForCurrent ==
  SunParams(Plus(Scaled(sunParams.cx, imageScale), centerXOffset),
            Plus(Scaled(sunParams.cy, imageScale), centerYOffset),
            CorrectedRadius(Scaled(sunParams.radius, imageScale),
                            radiusCorrection))

\* C25 (as claimed): while an image is on display adjustedSunParams equals
\* {cx: sunParams.cx * imageScale + centerXOffset,
\*  cy: sunParams.cy * imageScale + centerYOffset,
\*  radius: sunParams.radius * imageScale * radiusCorrection}
\* for the current sunParams; it never holds values derived from the
\* geometry of an image shown before.
C25_AdjustedFollowsCurrent ==
  currentImage # JSNull => adjustedSunParams = AdjustedForCurrent

\* C28: at most one animation timer is active at any time, and none while
\* animationRunning is false or no image is loaded, so that after Pause,
\* Previous or Next no tick changes currentImageIndex; the active timer is
\* the one animationRef names and counts the images now loaded, and each
\* tick sets currentImageIndex to (previous + 1) mod n over the n > 0
\* images.
C28_OneTimerWhileRunning ==
  /\ [](/\ Cardinality(DOMAIN intervals) <= 1
        /\ (~animationRunning \/ Len(sortedFilenames) = 0)
             => DOMAIN intervals = {}
        /\ \A id \in DOMAIN intervals :
             id = animationRef /\ intervals[id] = Len(sortedFilenames))
  /\ [][event'.handler = "tick"
         => /\ animationRunning /\ Len(sortedFilenames) > 0
            /\ currentImageIndex' =
                 (currentImageIndex + 1) % Len(sortedFilenames)]_vars
  /\ [][(~animationRunning' /\ currentImageIndex' # currentImageIndex)
         => event'.handler # "tick"]_vars

\* the animation runs over two images and a tick has wrapped the index
\* around to the first
C28_Witness ==
  /\ event.handler = "tick"
  /\ animationRunning
  /\ Len(sortedFilenames) = 2
  /\ currentImageIndex = 0
  /\ Cardinality(DOMAIN intervals) = 1

(***************************************************************************)
(* Properties of picking while stepping through the images (SpecPick)      *)
(***************************************************************************)
\* the name of the image on display, <<>> when there is none
CurrentName ==
  IF currentImageIndex + 1 \in 1..Len(sortedFilenames)
  THEN sortedFilenames[currentImageIndex + 1]
  ELSE <<>>

\* C23: whenever the current image changes (Previous, Next, animation tick
\* or upload) the five selection fields are reset to null, so a measurement
\* pairs an image with a selection made on that image: picks succeed on
\* sun.png only, a selection is held only while sun.png is on display and
\* every measurement recorded names sun.png.
C23_SelectionFollowsImage ==
  /\ [][CurrentName' # CurrentName
         => /\ currentSelection' = JSNull
            /\ selectionCoords' = JSNull
            /\ heliographicCoords' = JSNull
            /\ distanceFromCenter' = JSNull
            /\ zoomedRegion' = JSNull]_vars
  /\ [](/\ selectionCoords # JSNull => CurrentName = File_sun_png.name
        /\ \A k \in 1..Len(measurements) :
             measurements[k].image = File_sun_png.name)

\* a point of sun.png was picked and recorded, then Previous put su.png on
\* display: no selection is left
C23_Witness ==
  /\ Len(measurements) = 1
  /\ measurements[1].image = File_sun_png.name
  /\ event.handler = "Previous"
  /\ CurrentName = File_su_png.name
  /\ SelectionState = NoSelection

\* the three values recordMeasurement tests are set
SelectionComplete ==
  /\ selectionCoords # JSNull
  /\ heliographicCoords # JSNull
  /\ distanceFromCenter # JSNull

\* C26: recordMeasurement appends exactly one measurement, made of the
\* current image name, the selection and the label, and clears the label
\* when selectionCoords, heliographicCoords and distanceFromCenter are all
\* set, and otherwise leaves the list and the label unchanged; the three
\* values are set together, by a selection handleSelectionMade accepted.
C26_RecordAppendsOne ==
  /\ [][event'.handler = "recordMeasurement"
         => IF SelectionComplete
            THEN /\ Len(measurements') = Len(measurements) + 1
                 /\ SubSeq(measurements', 1, Len(measurements)) = measurements
                 /\ LET last == measurements'[Len(measurements')]
                    IN  /\ last.image = CurrentName
                        /\ last.pixelX = selectionCoords.original.x
                        /\ last.pixelY = selectionCoords.original.y
                        /\ last.helioLongitude = heliographicCoords.longitude
                        /\ last.helioLatitude = heliographicCoords.latitude
                        /\ last.distancePercent = distanceFromCenter.percent
                        /\ last.label = featureLabel
                 /\ featureLabel' = ""
            ELSE UNCHANGED recordVars]_vars
  /\ [](selectionCoords # JSNull => SelectionComplete)
  /\ [][selectionCoords' # JSNull /\ selectionCoords' # selectionCoords
         => event'.outcome = "selected"]_vars

\* a measurement labelled "spot" was recorded and the label field is empty
C26_Witness ==
  /\ event = [handler |-> "recordMeasurement", outcome |-> "recorded"]
  /\ Len(measurements) = 1
  /\ measurements[1].label = "spot"
  /\ measurements[1].image = File_sun_png.name
  /\ featureLabel = ""

\* C27: a click on the image while the animation is running or while no
\* image is loaded changes nothing: handleStageClick leaves the five
\* selection fields and the measurements list unchanged.
C27_ClickIgnored ==
  [][(/\ event'.handler = "handleStageClick"
      /\ animationRunning \/ currentImage = JSNull)
       => UNCHANGED <<selectionVars, measurements>>]_vars

\* a click while the animation runs and a selection is shown
C27_Witness ==
  /\ event.handler = "handleStageClick"
  /\ event.outcome = "ignored"
  /\ animationRunning
  /\ selectionCoords # JSNull

(***************************************************************************)
(* Properties of picking with the sliders moved (SpecGate)                 *)
(***************************************************************************)
\* C24 (as claimed): a point the strict gate of the transform accepts
\* (rho <= 1 in original-image coordinates with the unadjusted sunParams) is
\* also accepted by the lenient gate of handleSelectionMade, for every
\* radiusCorrection in [1, 7] and every offset in [-350, 350]: no click on
\* such a point is rejected.
C24_StrictWithinLenient ==
  (/\ event.handler = "handleStageClick"
   /\ GeometryUsable
   /\ PickedSquaredDistance <= sunParams.radius * sunParams.radius)
    => event.outcome # "rejected"

(***************************************************************************)
(* Properties of uploads that overlap (SpecOverlap)                        *)
(***************************************************************************)
\* C29 (as claimed): an upload never removes or overwrites a loaded image:
\* in every step every stored images[name] is kept unchanged, and an upload
\* that adds an image leaves sortedFilenames the sorted list of all keys of
\* images and currentImageIndex = 0.
C29_UploadKeepsImages ==
  [][/\ \A name \in DOMAIN images :
          name \in DOMAIN images' /\ images'[name] = images[name]
     /\ (event'.handler = "handleFileUpload" /\ event'.outcome = "loaded")
          => /\ sortedFilenames' = SortedKeys(DOMAIN images')
             /\ currentImageIndex' = 0]_vars

(***************************************************************************)
(* Properties of the normalisation loops (SpecLoop)                        *)
(***************************************************************************)
\* control has reached the return statement of line 66
LoopReturned == ret.by = "utils" /\ ret.line = 66

\* C30 (as claimed): the normalisation loops terminate for every finite raw
\* longitude: every call reaches the return statement.
C30_LoopsTerminate == <>LoopReturned

====
